---- MODULE Spec2Model ----
(***************************************************************************)
(* Goal lifecycle and progress ledger of the body recomposition backend.   *)
(*                                                                         *)
(* Body-fat percentages and weights are integers in hundredths (22.50% is  *)
(* 2250), timestamps of measurements are integers in hours, and the wall   *)
(* clock read by datetime.utcnow() is a logical counter (see now).         *)
(* Optional columns hold None (-1) when unset.                             *)
(*                                                                         *)
(* Every request handler is split at its database round trips that can     *)
(* observe or publish committed data: a read step and a commit step.       *)
(* Spec runs one request at a time, SpecConc interleaves two sessions,     *)
(* SpecLedger runs one request at a time against well-formed goals,        *)
(* SpecGoals every goal request of one user, SpecTrends one goal fed from  *)
(* a weekly series with its trends read at any moment, SpecRace two        *)
(* sessions logging two completing measurements on one cutting goal, and   *)
(* SpecCalc the calculators and validators called on their own.            *)
(***************************************************************************)
EXTENDS Integers, Sequences, FiniteSets, TLC

None == -1

\* ------------------------------------------------------------------ bounds
MaxGoals == 2
MaxEntries == 3
ConcMaxGoals == 2
ConcMaxEntries == 2
TrendMaxGoals == 1
TrendMaxEntries == 4

Sessions == {1, 2}

\* ------------------------------------------------------- stored fixtures
\* Rows of the users table (registration is not part of the engine).
users ==
  << [gender |-> "male",   height_cm |-> 17500, age_days |-> 10960,
      activity_level |-> "moderately_active"],
     [gender |-> "female", height_cm |-> 16500, age_days |-> 9200,
      activity_level |-> "sedentary"] >>

UserIds == DOMAIN users

HoursPerDay == 24

\* Rows of the body_measurements table: immutable once stored.
body_measurements ==
  << [user_id |-> 1, weight_kg |-> 8000, calculated_body_fat_percentage |-> 2250, measured_at |-> 0],
     [user_id |-> 1, weight_kg |-> 7950, calculated_body_fat_percentage |-> 2200, measured_at |-> 167],
     [user_id |-> 1, weight_kg |-> 7900, calculated_body_fat_percentage |-> 2000, measured_at |-> 168],
     [user_id |-> 1, weight_kg |-> 8100, calculated_body_fat_percentage |-> 2400, measured_at |-> 336],
     [user_id |-> 1, weight_kg |-> 7800, calculated_body_fat_percentage |-> 1950, measured_at |-> 504],
     [user_id |-> 2, weight_kg |-> 6000, calculated_body_fat_percentage |-> 2250, measured_at |-> 0],
     [user_id |-> 2, weight_kg |-> 5900, calculated_body_fat_percentage |-> 1600, measured_at |-> 200],
     \* a second series of user 1: a start and weekly measurements, 4 weeks
     [user_id |-> 1, weight_kg |-> 8000, calculated_body_fat_percentage |-> 2000, measured_at |-> 0],
     [user_id |-> 1, weight_kg |-> 7960, calculated_body_fat_percentage |-> 1970, measured_at |-> 168],
     [user_id |-> 1, weight_kg |-> 8050, calculated_body_fat_percentage |-> 2070, measured_at |-> 168],
     [user_id |-> 1, weight_kg |-> 7990, calculated_body_fat_percentage |-> 1995, measured_at |-> 336],
     [user_id |-> 1, weight_kg |-> 7900, calculated_body_fat_percentage |-> 1940, measured_at |-> 504],
     [user_id |-> 1, weight_kg |-> 7900, calculated_body_fat_percentage |-> 1941, measured_at |-> 504],
     [user_id |-> 1, weight_kg |-> 8020, calculated_body_fat_percentage |-> 2029, measured_at |-> 504],
     [user_id |-> 1, weight_kg |-> 8020, calculated_body_fat_percentage |-> 2030, measured_at |-> 504],
     [user_id |-> 1, weight_kg |-> 8200, calculated_body_fat_percentage |-> 2180, measured_at |-> 504],
     [user_id |-> 1, weight_kg |-> 8200, calculated_body_fat_percentage |-> 2181, measured_at |-> 504],
     [user_id |-> 1, weight_kg |-> 8000, calculated_body_fat_percentage |-> 2000, measured_at |-> 672] >>

MeasurementIds == DOMAIN body_measurements

\* The first series of each user, and the second series of user 1.
FirstSeries == 1..7
SecondSeries == 9..18

\* An id no row carries, for the not-found paths.
UnknownId == Len(body_measurements) + 1

\* Bodies of POST /goals requests, per authenticated user.
GoalTypes == {"cutting", "bulking"}
TargetInputs == {None, 200, 799, 800, 2000, 2245, 2250}
CeilingInputs == {None, 2250, 2251, 2400, 3000, 3001}

\* <<target, ceiling>> of a request: one boundary, none, or both.
BoundaryInputs ==
  {<<t, None>> : t \in TargetInputs} \cup {<<None, c>> : c \in CeilingInputs}
    \cup {<<2000, 2400>>}

FemaleBoundaryInputs == {<<1499, None>>, <<1500, None>>}

GoalRequest(user_id, goal_type, measurement_id, boundary) ==
  [user_id |-> user_id, goal_type |-> goal_type, measurement_id |-> measurement_id,
   target |-> boundary[1], ceiling |-> boundary[2]]

GoalRequests ==
  {GoalRequest(1, gt, 1, b) : gt \in GoalTypes, b \in BoundaryInputs}
    \cup {GoalRequest(1, "cutting", m, <<t, None>>) : m \in {6, UnknownId}, t \in {799, 2000}}
    \cup {GoalRequest(2, gt, 6, b) : gt \in GoalTypes, b \in FemaleBoundaryInputs}

\* ---------------------------------------------------------------- helpers
Abs(x) == IF x < 0 THEN -x ELSE x

Max2(a, b) == IF a >= b THEN a ELSE b

\* Python round() of the non-negative rational n/d: ties go to the even integer.
RoundHalfEven(n, d) ==
  LET q == n \div d
      r == n % d
  IN  IF 2 * r < d THEN q
      ELSE IF 2 * r > d THEN q + 1
      ELSE IF q % 2 = 0 THEN q ELSE q + 1

\* timedelta.days of (later - earlier): the floor of the difference in days.
TimedeltaDays(later, earlier) == (later - earlier) \div HoursPerDay

\* ------------------------------------------------------------ GoalService
ActivityMultiplier(level) ==
  CASE level = "sedentary" -> 1200
    [] level = "lightly_active" -> 1375
    [] level = "moderately_active" -> 1550
    [] level = "very_active" -> 1725
    [] level = "extremely_active" -> 1900

\* 10*w + 6.25*h - 5*age (+5 | -161), w and h in hundredths.
calculate_bmr(weight_kg, height_cm, age_years, gender) ==
  LET s == IF gender = "male" THEN 5 ELSE -161
  IN  RoundHalfEven(8 * weight_kg + 5 * height_cm - 400 * age_years + 80 * s, 80)

\* The product truncated instead of rounded.
calculate_tdee_Truncated(bmr, activity_level) ==
  (bmr * ActivityMultiplier(activity_level)) \div 1000

calculate_tdee(bmr, activity_level) ==
  RoundHalfEven(bmr * ActivityMultiplier(activity_level), 1000)

DefaultDeficit == 400
DefaultSurplus == 250

\* The difference without the minimum.
calculate_cutting_calories_NoMinimum(tdee, gender, deficit) == tdee - deficit

calculate_cutting_calories(tdee, gender, deficit) ==
  LET target == tdee - deficit
      minimum == IF gender = "male" THEN 1500 ELSE 1200
  IN  Max2(target, minimum)

calculate_bulking_calories(tdee, surplus) == tdee + surplus

\* round((current - target) / (0.75 / 4.33)), body fat in hundredths.
estimate_cutting_timeline(current_bf, target_bf) ==
  RoundHalfEven((current_bf - target_bf) * 433, 7500)

\* round((ceiling - current) / (0.2 / 4.33)), body fat in hundredths.
estimate_bulking_timeline(current_bf, ceiling_bf) ==
  RoundHalfEven((ceiling_bf - current_bf) * 433, 2000)

MinBfMale == 800
MinBfFemale == 1500
MaxCeilingBf == 3000

\* The male floor applied to every user.
MinSafeBf_MaleForAll(gender) == MinBfMale

\* The floor a cutting target must not fall below.
MinSafeBf(gender) == IF gender = "male" THEN MinBfMale ELSE MinBfFemale

\* TRUE when validate_goal_safety returns without raising.
validate_goal_safety(goal_type, current_bf, target_bf, ceiling_bf, gender) ==
  IF goal_type = "cutting"
  THEN /\ target_bf # None
       /\ ~ (target_bf < MinSafeBf(gender))
       /\ ~ (target_bf >= current_bf)
  ELSE /\ ceiling_bf # None
       /\ ~ (ceiling_bf > MaxCeilingBf)
       /\ ~ (ceiling_bf <= current_bf)

\* GoalCreate: field ranges (ge=3.0, le=50.0) and the exactly-one-boundary rule.
FieldMin == 300
FieldMax == 5000

InFieldRange(v) == v = None \/ (v >= FieldMin /\ v <= FieldMax)

validate_goal_targets(goal_type, target_bf, ceiling_bf) ==
  /\ InFieldRange(target_bf)
  /\ InFieldRange(ceiling_bf)
  /\ IF goal_type = "cutting"
     THEN target_bf # None /\ ceiling_bf = None
     ELSE ceiling_bf # None /\ target_bf = None

\* ------------------------------------------------------------------ state
VARIABLES
  goals,             \* committed rows of the goals table, id = index
  progress_entries,  \* committed rows of progress_entries, in insertion order
  pc,                \* per session: position of its request handler
  req,               \* per session: request inputs and the session's loaded objects
  resp               \* per session: the response of the request that just finished

vars == <<goals, progress_entries, pc, req, resp>>

NoReq ==
  [op |-> "none", user_id |-> None, goal_id |-> None, measurement_id |-> None,
   goal_type |-> "none", target |-> None, ceiling |-> None,
   status |-> "none", entry |-> <<>>, should_complete |-> FALSE,
   ceiling_warning |-> "none", rate_warning |-> FALSE]

NoResp ==
  [op |-> "none", error |-> "none", user_id |-> None, goal_id |-> None, days |-> None,
   entry |-> <<>>, ceiling_warning |-> "none", rate_warning |-> FALSE,
   trends |-> <<>>, calc |-> <<>>]

Response(op, error) == [NoResp EXCEPT !.op = op, !.error = error]

\* A response of POST /goals to the authenticated user.
GoalResponse(user_id, error) ==
  [Response("createGoal", error) EXCEPT !.user_id = user_id]

Init ==
  /\ goals = <<>>
  /\ progress_entries = <<>>
  /\ pc = [p \in Sessions |-> "idle"]
  /\ req = [p \in Sessions |-> NoReq]
  /\ resp = [p \in Sessions |-> NoResp]

GoalIds == DOMAIN goals

RECURSIVE SetMax(_)
SetMax(S) ==
  IF S = {} THEN 0
  ELSE LET x == CHOOSE x \in S : TRUE
           m == SetMax(S \ {x})
       IN  IF x > m THEN x ELSE m

\* datetime.utcnow() is strictly increasing.  Only the order of the values it
\* has handed out matters, so the clock is kept as the latest timestamp some
\* row or some object pending in a session still carries; the next reading
\* is now + 1.
now ==
  SetMax({goals[g].started_at : g \in GoalIds}
         \cup {goals[g].completed_at : g \in GoalIds}
         \cup {progress_entries[i].logged_at : i \in DOMAIN progress_entries}
         \cup {req[p].entry[1].logged_at : p \in {q \in Sessions : req[q].entry # <<>>}})

Idle(p) == pc[p] = "idle"

\* A request takes the first free session; under serial scheduling it also
\* waits for every other session to be idle.
CanStart(p, serial) ==
  /\ Idle(p)
  /\ \A q \in Sessions : q < p => ~ Idle(q)
  /\ serial => \A q \in Sessions : Idle(q)

Finish(p, r) ==
  /\ pc' = [pc EXCEPT ![p] = "done"]
  /\ req' = [req EXCEPT ![p] = NoReq]
  /\ resp' = [resp EXCEPT ![p] = r]

\* The handler has returned and the session is closed.
Return(p) ==
  /\ pc[p] = "done"
  /\ pc' = [pc EXCEPT ![p] = "idle"]
  /\ resp' = [resp EXCEPT ![p] = NoResp]
  /\ UNCHANGED <<goals, progress_entries, req>>

\* ------------------------------------------------------------ createGoal
\* The lookup without its status filter's effect: it never finds a goal.
ActiveGoalsOf_FindsNone(user_id) ==
  {g \in GoalIds : FALSE}

ActiveGoalsOf(user_id) ==
  {g \in GoalIds : goals[g].user_id = user_id /\ goals[g].status = "active"}

\* The row create_goal builds once every check has passed; t is utcnow().
NewGoal(user_id, goal_type, measurement_id, target, ceiling, t) ==
  LET user == users[user_id]
      measurement == body_measurements[measurement_id]
      age == user.age_days \div 365
      bmr == calculate_bmr(measurement.weight_kg, user.height_cm, age, user.gender)
      tdee == calculate_tdee(bmr, user.activity_level)
      bf == measurement.calculated_body_fat_percentage
  IN  [user_id |-> user_id,
       goal_type |-> goal_type,
       status |-> "active",
       initial_measurement_id |-> measurement_id,
       initial_body_fat_percentage |-> bf,
       initial_weight_kg |-> measurement.weight_kg,
       target_body_fat_percentage |-> target,
       ceiling_body_fat_percentage |-> ceiling,
       target_calories |->
         IF goal_type = "cutting"
         THEN calculate_cutting_calories(tdee, user.gender, DefaultDeficit)
         ELSE calculate_bulking_calories(tdee, DefaultSurplus),
       estimated_weeks_to_goal |->
         IF goal_type = "cutting"
         THEN estimate_cutting_timeline(bf, target)
         ELSE estimate_bulking_timeline(bf, ceiling),
       started_at |-> t,
       completed_at |-> None]

\* The stored measurement's owner is not the given user.
MeasurementOfOtherUser_Never(measurement_id, user_id) == FALSE

\* if measurement.user_id != user_id: raise
MeasurementOfOtherUser(measurement_id, user_id) ==
  body_measurements[measurement_id].user_id # user_id

\* The checks with the measurement looked up before the ACTIVE goal.
FirstGoalError_MeasurementFirst(user_id, goal_type, measurement_id, target, ceiling) ==
  IF measurement_id \notin MeasurementIds THEN "MeasurementNotFound"
  ELSE IF MeasurementOfOtherUser(measurement_id, user_id) THEN "OwnershipMismatch"
  ELSE IF Cardinality(ActiveGoalsOf(user_id)) > 1 THEN "InternalError"
  ELSE IF Cardinality(ActiveGoalsOf(user_id)) = 1 THEN "ActiveGoalExists"
  ELSE IF ~ validate_goal_safety(
              goal_type,
              body_measurements[measurement_id].calculated_body_fat_percentage,
              target, ceiling, users[user_id].gender)
  THEN "SafetyViolation"
  ELSE "ok"

\* The checks of create_goal in the order the code makes them: the lookup of
\* the user's ACTIVE goal with scalar_one_or_none(), the stored measurement,
\* its owner, the safety validation.  "ok" when none raises.
FirstGoalError(user_id, goal_type, measurement_id, target, ceiling) ==
  IF Cardinality(ActiveGoalsOf(user_id)) > 1 THEN "InternalError"
  ELSE IF Cardinality(ActiveGoalsOf(user_id)) = 1 THEN "ActiveGoalExists"
  ELSE IF measurement_id \notin MeasurementIds THEN "MeasurementNotFound"
  ELSE IF MeasurementOfOtherUser(measurement_id, user_id) THEN "OwnershipMismatch"
  ELSE IF ~ validate_goal_safety(
              goal_type,
              body_measurements[measurement_id].calculated_body_fat_percentage,
              target, ceiling, users[user_id].gender)
  THEN "SafetyViolation"
  ELSE "ok"

\* POST /goals up to the construction of the Goal: request validation, then
\* the checks of create_goal.
create_goal_validate(p, serial, max_goals, user_id, goal_type, measurement_id, target, ceiling) ==
  /\ CanStart(p, serial)
  /\ Len(goals) + Cardinality({q \in Sessions : pc[q] = "cg_insert"}) < max_goals
  /\ UNCHANGED <<goals, progress_entries>>
  /\ IF ~ validate_goal_targets(goal_type, target, ceiling)
     THEN Finish(p, GoalResponse(user_id, "ValidationError"))
     ELSE IF FirstGoalError(user_id, goal_type, measurement_id, target, ceiling) # "ok"
     THEN Finish(p, GoalResponse(user_id,
                      FirstGoalError(user_id, goal_type, measurement_id, target, ceiling)))
     ELSE /\ pc' = [pc EXCEPT ![p] = "cg_insert"]
          /\ req' = [req EXCEPT ![p] =
                       [NoReq EXCEPT !.op = "createGoal", !.user_id = user_id,
                                     !.goal_type = goal_type,
                                     !.measurement_id = measurement_id,
                                     !.target = target, !.ceiling = ceiling]]
          /\ UNCHANGED resp

MinCalories == 1200
MaxCalories == 5000

\* CHECK constraints of the goals table.
GoalRowValid(g) ==
  /\ g.target_calories >= MinCalories /\ g.target_calories <= MaxCalories
  /\ g.estimated_weeks_to_goal > 0
  /\ InFieldRange(g.target_body_fat_percentage)
  /\ InFieldRange(g.ceiling_body_fat_percentage)

\* The rest of create_goal and the router's commit: INSERT of the Goal, which
\* the CHECK constraints may refuse, and COMMIT.
create_goal_insert(p) ==
  LET r == req[p]
      goal == NewGoal(r.user_id, r.goal_type, r.measurement_id, r.target, r.ceiling, now + 1)
  IN
  /\ pc[p] = "cg_insert"
  /\ UNCHANGED progress_entries
  /\ IF ~ GoalRowValid(goal)
     THEN /\ Finish(p, GoalResponse(r.user_id, "InternalError"))
          /\ UNCHANGED goals
     ELSE /\ goals' = Append(goals, goal)
          /\ Finish(p, [GoalResponse(r.user_id, "ok") EXCEPT !.goal_id = Len(goals) + 1])

\* The user's explicit cancellation of an ACTIVE goal.
cancel_goal(serial, g) ==
  /\ serial => \A q \in Sessions : Idle(q)
  /\ g \in GoalIds
  /\ goals[g].status = "active"
  /\ goals' = [goals EXCEPT ![g].status = "cancelled"]
  /\ UNCHANGED <<progress_entries, pc, req, resp>>

\* -------------------------------------------------------- ProgressService
RECURSIVE InsertByWeek(_, _)
InsertByWeek(sorted, e) ==
  IF sorted = <<>> THEN <<e>>
  ELSE IF e.week_number < Head(sorted).week_number THEN <<e>> \o sorted
  ELSE <<Head(sorted)>> \o InsertByWeek(Tail(sorted), e)

RECURSIVE OrderByWeekNumber(_)
OrderByWeekNumber(rows) ==
  IF rows = <<>> THEN <<>>
  ELSE InsertByWeek(OrderByWeekNumber(SubSeq(rows, 1, Len(rows) - 1)), rows[Len(rows)])

\* Goal.progress_entries: the goal's committed entries, ORDER BY week_number.
EntriesOf(g) ==
  OrderByWeekNumber(SelectSeq(progress_entries, LAMBDA e : e.goal_id = g))

\* max(goal.progress_entries, key=lambda e: e.logged_at): the first maximum.
LastEntry(entries) ==
  LET i == CHOOSE i \in 1..Len(entries) :
             /\ \A j \in 1..Len(entries) : entries[j].logged_at <= entries[i].logged_at
             /\ \A j \in 1..(i - 1) : entries[j].logged_at < entries[i].logged_at
  IN  entries[i]

_calculate_on_track_status(goal_type, initial_bf, body_fat_change, weeks_elapsed) ==
  IF goal_type = "cutting"
  THEN LET expected_min_loss == 40 * weeks_elapsed
           expected_max_loss == 120 * weeks_elapsed
           total_loss == initial_bf - (initial_bf + body_fat_change)
       IN  expected_min_loss <= Abs(total_loss) /\ Abs(total_loss) <= expected_max_loss
  ELSE LET expected_min_gain == 10 * weeks_elapsed
           expected_max_gain == 60 * weeks_elapsed
           total_gain == body_fat_change
       IN  expected_min_gain <= total_gain /\ total_gain <= expected_max_gain

\* The proximity warning from one point below the ceiling on, inclusive.
check_bulking_ceiling_Inclusive(current_bf, ceiling_bf) ==
  LET diff == ceiling_bf - current_bf
  IN  IF diff <= 0 THEN <<"ceiling_reached", TRUE>>
      ELSE IF diff <= 100 THEN <<"approaching_ceiling", FALSE>>
      ELSE <<"none", FALSE>>

\* <<warning, should_complete_goal>>
check_bulking_ceiling(current_bf, ceiling_bf) ==
  LET diff == ceiling_bf - current_bf
  IN  IF diff <= 0 THEN <<"ceiling_reached", TRUE>>
      ELSE IF diff < 100 THEN <<"approaching_ceiling", FALSE>>
      ELSE <<"none", FALSE>>

\* TRUE when the "gaining too quickly" warning is returned.
check_bulking_rate(previous_bf, current_bf, weeks) ==
  IF weeks <= 0 THEN FALSE
  ELSE (current_bf - previous_bf) > 50 * weeks

MinDaysBetween == 7

\* The status check left out.
GoalIsActive_AnyStatus(goal) == TRUE

\* if goal.status != GoalStatus.ACTIVE: raise
GoalIsActive(goal) == goal.status = "active"

\* Numbering from the count itself.
NextWeekNumber_FromZero(entries) == Len(entries)

\* week_number = len(goal.progress_entries) + 1
NextWeekNumber(entries) == Len(entries) + 1

\* Every measurement compared with the goal's initial one.
PriorCheckpoint_Initial(goal, entries) ==
  body_measurements[goal.initial_measurement_id]

\* The measurement the new one is compared with: that of the entry logged
\* last, or the goal's initial measurement when the ledger is empty.
PriorCheckpoint(goal, entries) ==
  IF entries # <<>>
  THEN body_measurements[LastEntry(entries).measurement_id]
  ELSE body_measurements[goal.initial_measurement_id]

\* The guard one day short.
TooSoon_SixDays(days_since) == days_since < MinDaysBetween - 1

\* if days_since_last < 7: raise
TooSoon(days_since) == days_since < MinDaysBetween

\* log_progress up to the construction of the ProgressEntry, computed on the
\* goal row and the entries the session has loaded; t is utcnow().
LogProgress(goal, goal_id, measurement_id, entries, t) ==
  LET fail(error) == Response("appendProgress", error)
  IN
  IF ~ GoalIsActive(goal) THEN [result |-> fail("GoalNotActive"), should_complete |-> FALSE]
  ELSE IF measurement_id \notin MeasurementIds
  THEN [result |-> fail("MeasurementNotFound"), should_complete |-> FALSE]
  ELSE IF MeasurementOfOtherUser(measurement_id, goal.user_id)
  THEN [result |-> fail("OwnershipMismatch"), should_complete |-> FALSE]
  ELSE
    LET measurement == body_measurements[measurement_id]
        week_number == NextWeekNumber(entries)
        prior == PriorCheckpoint(goal, entries)
        days_since == TimedeltaDays(measurement.measured_at, prior.measured_at)
        body_fat_change == measurement.calculated_body_fat_percentage
                             - prior.calculated_body_fat_percentage
        weight_change == measurement.weight_kg - prior.weight_kg
        is_on_track == _calculate_on_track_status(
                          goal.goal_type,
                          body_measurements[goal.initial_measurement_id]
                            .calculated_body_fat_percentage,
                          body_fat_change, week_number)
        ceiling == IF goal.goal_type = "bulking" /\ goal.ceiling_body_fat_percentage # None
                   THEN check_bulking_ceiling(measurement.calculated_body_fat_percentage,
                                              goal.ceiling_body_fat_percentage)
                   ELSE <<"none", FALSE>>
        rate == IF goal.goal_type = "bulking" /\ entries # <<>>
                THEN check_bulking_rate(prior.calculated_body_fat_percentage,
                                        measurement.calculated_body_fat_percentage,
                                        Max2(1, days_since \div 7))
                ELSE FALSE
        progress_entry ==
          [goal_id |-> goal_id,
           measurement_id |-> measurement_id,
           week_number |-> week_number,
           body_fat_percentage |-> measurement.calculated_body_fat_percentage,
           weight_kg |-> measurement.weight_kg,
           body_fat_change |-> body_fat_change,
           weight_change_kg |-> weight_change,
           is_on_track |-> is_on_track,
           logged_at |-> t]
    IN  IF TooSoon(days_since)
        THEN [result |-> [fail("TooSoon") EXCEPT !.days = days_since],
              should_complete |-> FALSE]
        ELSE [result |-> [fail("ok") EXCEPT !.goal_id = goal_id,
                                           !.entry = <<progress_entry>>,
                                           !.ceiling_warning = ceiling[1],
                                           !.rate_warning = rate],
              should_complete |-> ceiling[2]]

\* POST /goals/{goal_id}/progress up to the commit of log_progress: the
\* router's goal lookup, the load of the goal with its entries, every check
\* and computation of log_progress.
append_progress_load(p, serial, max_entries, user_id, goal_id, measurement_id) ==
  /\ CanStart(p, serial)
  /\ Len(progress_entries) + Cardinality({q \in Sessions : pc[q] = "ap_commit"}) < max_entries
  /\ UNCHANGED <<goals, progress_entries>>
  /\ IF goal_id \notin GoalIds \/ goals[goal_id].user_id # user_id
     THEN /\ Finish(p, Response("appendProgress", "GoalNotFound"))
     ELSE LET lp == LogProgress(goals[goal_id], goal_id, measurement_id,
                                EntriesOf(goal_id), now + 1)
          IN  IF lp.result.error # "ok"
              THEN Finish(p, lp.result)
              ELSE /\ pc' = [pc EXCEPT ![p] = "ap_commit"]
                   /\ req' = [req EXCEPT ![p] =
                        [NoReq EXCEPT !.op = "appendProgress", !.user_id = user_id,
                                      !.goal_id = goal_id,
                                      !.measurement_id = measurement_id,
                                      !.status = goals[goal_id].status,
                                      !.entry = lp.result.entry,
                                      !.should_complete = lp.should_complete,
                                      !.ceiling_warning = lp.result.ceiling_warning,
                                      !.rate_warning = lp.result.rate_warning]]
                   /\ UNCHANGED resp

\* The clock reading t went to an object that session p now discards.  The
\* readings still held keep their order and are renumbered without the gap.
Renumber(stamp, t) == IF stamp > t THEN stamp - 1 ELSE stamp

Forget(p, t) ==
  /\ goals' = [g \in DOMAIN goals |->
                 [goals[g] EXCEPT !.started_at = Renumber(@, t),
                                  !.completed_at = Renumber(@, t)]]
  /\ progress_entries' = [i \in DOMAIN progress_entries |->
                 [progress_entries[i] EXCEPT !.logged_at = Renumber(@, t)]]
  /\ req' = [q \in Sessions |->
                 IF q = p THEN NoReq
                 ELSE IF req[q].entry = <<>> THEN req[q]
                 ELSE [req[q] EXCEPT !.entry =
                         <<[req[q].entry[1] EXCEPT !.logged_at = Renumber(@, t)]>>]]

\* The column without unique=True: no insert is ever refused.
MeasurementLogged_NotUnique(measurement_id) ==
  FALSE

\* UNIQUE (measurement_id) of progress_entries.
MeasurementLogged(measurement_id) ==
  \E i \in DOMAIN progress_entries : progress_entries[i].measurement_id = measurement_id

\* db.commit() of log_progress: INSERT of the entry and, when the ceiling
\* check asked for it, UPDATE of the goal, in one transaction.  A duplicate
\* measurement_id raises IntegrityError, which no handler catches.
append_progress_commit(p) ==
  LET r == req[p] IN
  /\ pc[p] = "ap_commit"
  /\ IF MeasurementLogged(r.measurement_id)
     THEN /\ pc' = [pc EXCEPT ![p] = "done"]
          /\ resp' = [resp EXCEPT ![p] = Response("appendProgress", "InternalError")]
          /\ Forget(p, r.entry[1].logged_at)
     ELSE /\ progress_entries' = Append(progress_entries, r.entry[1])
          /\ goals' = IF r.should_complete
                      THEN [goals EXCEPT ![r.goal_id].status = "completed",
                                         ![r.goal_id].completed_at = r.entry[1].logged_at]
                      ELSE goals
          /\ pc' = [pc EXCEPT ![p] = "ap_check"]
          /\ req' = [req EXCEPT ![p].status =
                        IF r.should_complete THEN "completed" ELSE r.status]
          /\ UNCHANGED resp

\* The comparisons of the two goal types exchanged.
GoalReached_Exchanged(goal, current_body_fat) ==
  IF goal.goal_type = "cutting"
  THEN /\ goal.target_body_fat_percentage # None
       /\ current_body_fat >= goal.target_body_fat_percentage
  ELSE /\ goal.ceiling_body_fat_percentage # None
       /\ current_body_fat <= goal.ceiling_body_fat_percentage

\* Completion only when the boundary is strictly passed.
GoalReached_Strict(goal, current_body_fat) ==
  IF goal.goal_type = "cutting"
  THEN /\ goal.target_body_fat_percentage # None
       /\ current_body_fat < goal.target_body_fat_percentage
  ELSE /\ goal.ceiling_body_fat_percentage # None
       /\ current_body_fat > goal.ceiling_body_fat_percentage

\* TRUE when check_goal_completion decides the goal is complete.
GoalReached(goal, current_body_fat) ==
  IF goal.goal_type = "cutting"
  THEN /\ goal.target_body_fat_percentage # None
       /\ current_body_fat <= goal.target_body_fat_percentage
  ELSE /\ goal.ceiling_body_fat_percentage # None
       /\ current_body_fat >= goal.ceiling_body_fat_percentage

\* The value check_goal_completion returns for a goal whose status the
\* session sees as given: FALSE unless ACTIVE and at or past the boundary.
ShouldComplete(status, goal, current_body_fat) ==
  status = "active" /\ GoalReached(goal, current_body_fat)

\* check_goal_completion as called by the router after log_progress: the
\* session still holds the Goal object it loaded, so the status it tests is
\* the loaded one; on completion it commits the UPDATE of the goal.
check_goal_completion(p) ==
  LET r == req[p]
      completed == ShouldComplete(r.status, goals[r.goal_id],
                                  r.entry[1].body_fat_percentage)
  IN
  /\ pc[p] = "ap_check"
  /\ UNCHANGED progress_entries
  /\ IF completed
     THEN goals' = [goals EXCEPT ![r.goal_id].status = "completed",
                                 ![r.goal_id].completed_at = now + 1]
     ELSE UNCHANGED goals
  /\ Finish(p, [Response("appendProgress", "ok") EXCEPT
                  !.goal_id = r.goal_id, !.entry = r.entry,
                  !.ceiling_warning = r.ceiling_warning,
                  !.rate_warning = r.rate_warning])

\* GET /goals/{goal_id}/progress
get_progress_history(goal_id) == EntriesOf(goal_id)

\* ------------------------------------------------------------------ trends
\* A Decimal quotient is kept as the exact fraction num/den, den > 0.
Fraction(num, den) == [num |-> num, den |-> den]

Zero == Fraction(0, 1)

RECURSIVE Pow10(_)
Pow10(e) == IF e <= 0 THEN 1 ELSE 10 * Pow10(e - 1)

RECURSIVE PowMod10(_, _)
PowMod10(e, n) == IF e = 0 THEN 1 % n ELSE (10 * PowMod10(e - 1, n)) % n

\* The decimal exponent a of a positive fraction: 10^a <= num/den < 10^(a+1).
RECURSIVE ILog10(_, _)
ILog10(num, den) ==
  IF num < den THEN ILog10(10 * num, den) - 1
  ELSE IF num >= 10 * den THEN ILog10(num, 10 * den) + 1
  ELSE 0

\* The precision of the default decimal context.
DecimalPrec == 28

\* int(remaining / abs(total / n)) in Decimal arithmetic, for remaining > 0,
\* total # 0 and n > 0 (remaining and total in hundredths). Each division is
\* rounded to DecimalPrec significant digits, half to even. When the exact
\* quotient remaining * n / |total| is not an integer, or |total| / n was
\* rounded down or not at all, the result is the exact floor k. When it is
\* an integer k and |total| / n was rounded up by `up` units of its last
\* digit, the second quotient falls below k by k * up / (|total| * 10^s) and
\* is rounded back to k only within half a unit of its own last digit.
DecimalDivInt_Exact(remaining, total, n) == (remaining * n) \div Abs(total)

DecimalDivInt(remaining, total, n) ==
  LET t == Abs(total)
      k == (remaining * n) \div t
      m == (remaining * n) % t
      a == ILog10(t, n)
      s == (DecimalPrec - 1) - a
      rem == (t * PowMod10(s, n)) % n
      up == n - rem
      b == IF Pow10(ILog10(k, 1)) = k THEN ILog10(k, 1) - 1 ELSE ILog10(k, 1)
      lhs == 2 * k * up * Pow10(a) * Pow10(0 - b)
      rhs == t * Pow10(b) * Pow10(0 - a)
  IN  IF m # 0 THEN k
      ELSE IF rem = 0 \/ 2 * rem < n THEN k
      ELSE IF lhs <= rhs THEN k
      ELSE k - 1

RECURSIVE SumOf(_, _)
SumOf(entries, field) ==
  IF entries = <<>> THEN 0
  ELSE entries[1][field] + SumOf(Tail(entries), field)

LatestByWeek_Oldest(entries) == entries[1]

\* max(goal.progress_entries, key=lambda e: e.week_number): the first maximum.
LatestByWeek(entries) ==
  LET i == CHOOSE i \in 1..Len(entries) :
             /\ \A j \in 1..Len(entries) : entries[j].week_number <= entries[i].week_number
             /\ \A j \in 1..(i - 1) : entries[j].week_number < entries[i].week_number
  IN  entries[i]

\* max(0, min(100, num / den * 100)), den # 0.
ClampPercent(num, den) ==
  IF num = 0 \/ (num < 0) # (den < 0) THEN Zero
  ELSE IF Abs(num) >= Abs(den) THEN Fraction(100, 1)
  ELSE Fraction(100 * Abs(num), Abs(den))

\* The percentage as a fraction; den = 0 stands for the division by zero
\* that the Decimal quotient raises.
calculate_progress_percentage(goal_id) ==
  LET goal == goals[goal_id]
      entries == EntriesOf(goal_id)
      current_bf == LatestByWeek(entries).body_fat_percentage
      initial_bf == body_measurements[goal.initial_measurement_id]
                      .calculated_body_fat_percentage
      target_bf == goal.target_body_fat_percentage
      ceiling_bf == goal.ceiling_body_fat_percentage
  IN  IF entries = <<>> THEN Zero
      ELSE IF goal.goal_type = "cutting"
      THEN IF target_bf = None \/ target_bf = 0 THEN Zero
           ELSE IF initial_bf - target_bf = 0 THEN Fraction(0, 0)
           ELSE ClampPercent(initial_bf - current_bf, initial_bf - target_bf)
      ELSE IF ceiling_bf = None \/ ceiling_bf = 0 THEN Zero
           ELSE IF ceiling_bf - initial_bf = 0 THEN Fraction(0, 0)
           ELSE ClampPercent(current_bf - initial_bf, ceiling_bf - initial_bf)

RecentEntries == 3

\* sum(changes) / len(changes) against each threshold, compared exactly:
\* sum <op> threshold * len(changes).
_classify_trend_AllEntries(entries, goal_type) ==
  IF Len(entries) < RecentEntries THEN "insufficient_data"
  ELSE LET n == Len(entries)
           total == SumOf(entries, "body_fat_change")
       IN  IF goal_type = "cutting"
           THEN IF total < (0 - 40) * n THEN "improving"
                ELSE IF total > (0 - 20) * n THEN "plateau"
                ELSE "improving"
           ELSE IF 20 * n <= total /\ total <= 50 * n THEN "improving"
                ELSE IF total < 10 * n THEN "plateau"
                ELSE IF total > 60 * n THEN "worsening"
                ELSE "improving"

_classify_trend(entries, goal_type) ==
  IF Len(entries) < RecentEntries THEN "insufficient_data"
  ELSE LET recent_entries == SubSeq(entries, Len(entries) - RecentEntries + 1, Len(entries))
           n == Len(recent_entries)
           total == SumOf(recent_entries, "body_fat_change")
       IN  IF goal_type = "cutting"
           THEN IF total < (0 - 40) * n THEN "improving"
                ELSE IF total > (0 - 20) * n THEN "plateau"
                ELSE "improving"
           ELSE IF 20 * n <= total /\ total <= 50 * n THEN "improving"
                ELSE IF total < 10 * n THEN "plateau"
                ELSE IF total > 60 * n THEN "worsening"
                ELSE "improving"

\* The suggestion by its kind; avg is the fraction weekly_bf_change_avg.
_suggest_adjustments(goal, trend, is_on_track, avg) ==
  IF trend = "insufficient_data" THEN "keep_logging"
  ELSE IF goal.goal_type = "cutting"
  THEN IF trend = "improving" /\ is_on_track THEN "maintain"
       ELSE IF trend = "plateau" THEN "increase_deficit"
       ELSE IF ~ is_on_track /\ avg.num > (0 - 30) * avg.den THEN "slower_than_expected"
       ELSE IF avg.num < (0 - 100) * avg.den THEN "reduce_deficit"
       ELSE "steady"
  ELSE IF trend = "improving" /\ is_on_track THEN "maintain"
       ELSE IF trend = "plateau" THEN "increase_surplus"
       ELSE IF trend = "worsening" THEN "reduce_surplus"
       ELSE "steady"

\* The bulking branch divides by the signed average.
_estimate_weeks_remaining(goal, current_bf, avg) ==
  IF avg.num = 0 THEN None
  ELSE IF goal.goal_type = "cutting"
  THEN LET target_bf == goal.target_body_fat_percentage
           remaining_bf == current_bf - target_bf
       IN  IF target_bf = None \/ target_bf = 0 THEN None
           ELSE IF remaining_bf <= 0 THEN 0
           ELSE DecimalDivInt(remaining_bf, avg.num, avg.den)
  ELSE LET ceiling_bf == goal.ceiling_body_fat_percentage
           remaining_bf == ceiling_bf - current_bf
       IN  IF ceiling_bf = None \/ ceiling_bf = 0 THEN None
           ELSE IF remaining_bf <= 0 THEN 0
           ELSE IF avg.num < 0 THEN 0
           ELSE DecimalDivInt(remaining_bf, avg.num, avg.den)

\* 60% of the entries.
OnTrackShare == <<3, 5>>

get_trends(goal_id) ==
  LET goal == goals[goal_id]
      entries == EntriesOf(goal_id)
      weeks_elapsed == Len(entries)
      avg_bf == Fraction(SumOf(entries, "body_fat_change"), weeks_elapsed)
      avg_weight == Fraction(SumOf(entries, "weight_change_kg"), weeks_elapsed)
      on_track_count == Len(SelectSeq(entries, LAMBDA e : e.is_on_track))
      is_on_track == OnTrackShare[2] * on_track_count >= OnTrackShare[1] * weeks_elapsed
      trend == _classify_trend(entries, goal.goal_type)
  IN  IF Len(entries) < 2
      THEN [progress_percentage |-> Zero,
            weeks_elapsed |-> Len(entries),
            is_on_track |-> FALSE,
            weekly_bf_change_avg |-> Zero,
            weekly_weight_change_avg |-> Zero,
            trend |-> "insufficient_data",
            adjustment_suggestion |-> "none",
            estimated_weeks_remaining |-> goal.estimated_weeks_to_goal]
      ELSE [progress_percentage |-> calculate_progress_percentage(goal_id),
            weeks_elapsed |-> weeks_elapsed,
            is_on_track |-> is_on_track,
            weekly_bf_change_avg |-> avg_bf,
            weekly_weight_change_avg |-> avg_weight,
            trend |-> trend,
            adjustment_suggestion |->
              _suggest_adjustments(goal, trend, is_on_track, avg_bf),
            estimated_weeks_remaining |->
              _estimate_weeks_remaining(goal, entries[Len(entries)].body_fat_percentage,
                                        avg_bf)]

\* GET /goals/{goal_id}/trends: the router's goal lookup, then get_trends.
\* The division by zero of the percentage is not caught by the router.
get_progress_trends(p, serial, user_id, goal_id) ==
  /\ CanStart(p, serial)
  /\ UNCHANGED <<goals, progress_entries>>
  /\ IF goal_id \notin GoalIds \/ goals[goal_id].user_id # user_id
     THEN Finish(p, [Response("getTrends", "GoalNotFound") EXCEPT !.user_id = user_id])
     ELSE LET trends == get_trends(goal_id)
          IN  IF trends.progress_percentage.den = 0
              THEN Finish(p, [Response("getTrends", "InternalError")
                                EXCEPT !.user_id = user_id, !.goal_id = goal_id])
              ELSE Finish(p, [Response("getTrends", "ok")
                                EXCEPT !.user_id = user_id, !.goal_id = goal_id,
                                       !.trends = <<trends>>])

\* ------------------------------------------------- calculators, directly
\* A call of a calculator or validator outside any request handler: the
\* arguments and the value returned are kept in the response.
Genders == {"male", "female"}

TdeeInputs == {900, 1199, 1200, 1201, 1499, 1500, 1501, 1600, 1899, 1900, 1901, 2711}

DeficitInputs == {0, 300, 400, 401, 500, 2000}

CalcResponse(op, args, value) ==
  [Response(op, "ok") EXCEPT !.calc = <<[args |-> args, value |-> value]>>]

\* MeasurementValidator.SAFE_MIN_TARGET_MALE / _FEMALE.
SAFE_MIN_TARGET_MALE == 800
SAFE_MIN_TARGET_FEMALE == 1500

\* The floor itself refused.
validate_target_safety_Exclusive(target_body_fat, gender) ==
  LET safe_min == IF gender = "male" THEN SAFE_MIN_TARGET_MALE ELSE SAFE_MIN_TARGET_FEMALE
  IN  ~ (target_body_fat <= safe_min)

\* TRUE when MeasurementValidator.validate_target_safety answers (True, None).
validate_target_safety(target_body_fat, gender) ==
  LET safe_min == IF gender = "male" THEN SAFE_MIN_TARGET_MALE ELSE SAFE_MIN_TARGET_FEMALE
  IN  ~ (target_body_fat < safe_min)

\* Targets around both floors, and the ends of the accepted field range.
SafetyTargetInputs == (790..810) \cup (1490..1510) \cup {FieldMin, FieldMax - 1}

\* Both floor checks on one target: the validator's, and validate_goal_safety
\* of a cutting goal whose current body fat (the top of the field range) is
\* above every target drawn, so that only its floor check can refuse.
target_safety(p) ==
  /\ CanStart(p, TRUE)
  /\ UNCHANGED <<goals, progress_entries>>
  /\ \E target_body_fat \in SafetyTargetInputs, gender \in Genders :
       Finish(p, CalcResponse("target_safety",
                [target |-> target_body_fat, gender |-> gender],
                [validator |-> validate_target_safety(target_body_fat, gender),
                 goal_service |-> validate_goal_safety("cutting", FieldMax,
                                    target_body_fat, None, gender)]))

CalculationMethods == {"navy", "3_site", "7_site"}

MeasurementFields ==
  {"waist_cm", "neck_cm", "hip_cm", "chest_mm", "midaxillary_mm", "tricep_mm",
   "subscapular_mm", "abdomen_mm", "suprailiac_mm", "thigh_mm"}

SevenSites ==
  <<"chest_mm", "midaxillary_mm", "tricep_mm", "subscapular_mm", "abdomen_mm",
    "suprailiac_mm", "thigh_mm">>

\* The keyword arguments of calculate: given is the set of fields that carry
\* a number; a field not given is passed as None when as_none holds and left
\* out of the call otherwise. measurements.get(name) is None in both cases.
IsNone(given, name) == name \notin given

\* The outcome of each method by its kind: "value" when a body fat is
\* returned, else the exception raised. Arithmetic on None raises TypeError.
calculate_navy(gender, given) ==
  IF gender = "male"
  THEN IF IsNone(given, "waist_cm") \/ IsNone(given, "neck_cm") THEN "TypeError"
       ELSE "value"
  ELSE IF IsNone(given, "hip_cm") THEN "ValueError"
       ELSE IF IsNone(given, "waist_cm") \/ IsNone(given, "neck_cm") THEN "TypeError"
       ELSE "value"

calculate_3_site(gender, given) ==
  IF gender = "male"
  THEN IF IsNone(given, "chest_mm") \/ IsNone(given, "abdomen_mm") \/ IsNone(given, "thigh_mm")
       THEN "ValueError" ELSE "value"
  ELSE IF IsNone(given, "tricep_mm") \/ IsNone(given, "suprailiac_mm") \/ IsNone(given, "thigh_mm")
       THEN "ValueError" ELSE "value"

calculate_7_site(gender, given) ==
  IF \E i \in DOMAIN SevenSites : IsNone(given, SevenSites[i]) THEN "TypeError"
  ELSE "value"

\* BodyFatCalculator.calculate: the seven-site branch subscripts the keyword
\* arguments, which raises KeyError for one left out of the call.
calculate(method, gender, given, as_none) ==
  IF method = "navy" THEN calculate_navy(gender, given)
  ELSE IF method = "3_site" THEN calculate_3_site(gender, given)
  ELSE IF method = "7_site"
  THEN IF ~ as_none /\ \E i \in DOMAIN SevenSites : SevenSites[i] \notin given
       THEN "KeyError"
       ELSE calculate_7_site(gender, given)
  ELSE "ValueError"

calculate_body_fat(p) ==
  /\ CanStart(p, TRUE)
  /\ UNCHANGED <<goals, progress_entries>>
  /\ \E method \in CalculationMethods, gender \in Genders,
        given \in SUBSET MeasurementFields, as_none \in BOOLEAN :
       Finish(p, CalcResponse("body_fat",
                [method |-> method, gender |-> gender, given |-> given,
                 as_none |-> as_none],
                calculate(method, gender, given, as_none)))

cutting_target(p) ==
  /\ CanStart(p, TRUE)
  /\ UNCHANGED <<goals, progress_entries>>
  /\ \E tdee \in TdeeInputs, gender \in Genders, deficit \in DeficitInputs :
       Finish(p, CalcResponse("cutting_target",
                [tdee |-> tdee, gender |-> gender, deficit |-> deficit],
                calculate_cutting_calories(tdee, gender, deficit)))

\* --------------------------------------------------------- specifications
NextWith(serial, in) ==
  \/ \E p \in Sessions, goal_data \in in.goal_requests :
       create_goal_validate(p, serial, in.max_goals, goal_data.user_id,
                            goal_data.goal_type, goal_data.measurement_id,
                            goal_data.target, goal_data.ceiling)
  \/ \E p \in Sessions : create_goal_insert(p)
  \/ \E p \in Sessions, user_id \in in.users, goal_id \in 1..(in.max_goals + 1),
        measurement_id \in in.measurements :
       append_progress_load(p, serial, in.max_entries, user_id, goal_id, measurement_id)
  \/ \E p \in Sessions : append_progress_commit(p)
  \/ \E p \in Sessions : check_goal_completion(p)
  \/ \E g \in 1..in.max_goals : cancel_goal(serial, g)
  \/ \E p \in Sessions : Return(p)

\* One request at a time, from either user.
Inputs ==
  [users |-> UserIds,
   goal_requests |-> GoalRequests,
   measurements |-> FirstSeries \cup {UnknownId},
   max_goals |-> MaxGoals,
   max_entries |-> MaxEntries]

Next == NextWith(TRUE, Inputs)

Spec == Init /\ [][Next]_vars

\* One request at a time, against goals that pass every check of createGoal:
\* the ledger's behaviour over all stored measurements.
LedgerInputs ==
  [users |-> UserIds,
   goal_requests |-> {GoalRequest(1, "cutting", 1, <<800, None>>),
                      GoalRequest(1, "cutting", 1, <<2000, None>>),
                      GoalRequest(1, "bulking", 1, <<None, 2400>>)},
   measurements |-> FirstSeries \cup {UnknownId},
   max_goals |-> MaxGoals,
   max_entries |-> MaxEntries]

NextLedger == NextWith(TRUE, LedgerInputs)

SpecLedger == Init /\ [][NextLedger]_vars

\* One request at a time, every createGoal body, one measurement to append.
GoalInputs ==
  [users |-> {1},
   goal_requests |-> GoalRequests,
   measurements |-> {3},
   max_goals |-> MaxGoals,
   max_entries |-> MaxEntries]

NextGoals == NextWith(TRUE, GoalInputs)

SpecGoals == Init /\ [][NextGoals]_vars

\* Two sessions of one user whose handlers interleave at their database
\* round trips.
ConcInputs ==
  [users |-> {1},
   goal_requests |-> {GoalRequest(1, "cutting", 1, <<2000, None>>),
                      GoalRequest(1, "bulking", 1, <<None, 2400>>)},
   measurements |-> {3, 4},
   max_goals |-> ConcMaxGoals,
   max_entries |-> ConcMaxEntries]

NextConc == NextWith(FALSE, ConcInputs)

SpecConc == Init /\ [][NextConc]_vars

\* One request at a time against one goal of user 1, started from the first
\* measurement of the second series (20.00%) and fed from that series, with
\* its trends read at any moment. The last two requests name the initial
\* body fat as the boundary.
TrendInputs ==
  [users |-> {1},
   goal_requests |-> {GoalRequest(1, "cutting", 8, <<1882, None>>),
                      GoalRequest(1, "cutting", 8, <<1940, None>>),
                      GoalRequest(1, "bulking", 8, <<None, 2070>>),
                      GoalRequest(1, "cutting", 8, <<2000, None>>),
                      GoalRequest(1, "bulking", 8, <<None, 2000>>)},
   measurements |-> SecondSeries,
   max_goals |-> TrendMaxGoals,
   max_entries |-> TrendMaxEntries]

NextTrends ==
  \/ NextWith(TRUE, TrendInputs)
  \/ \E p \in Sessions, user_id \in UserIds, goal_id \in 1..(TrendInputs.max_goals + 1) :
       get_progress_trends(p, TRUE, user_id, goal_id)

SpecTrends == Init /\ [][NextTrends]_vars

\* Two interleaved sessions on a cutting goal with two measurements that are
\* both at or below its target.
RaceInputs ==
  [users |-> {1},
   goal_requests |-> {GoalRequest(1, "cutting", 1, <<2000, None>>)},
   measurements |-> {3, 5},
   max_goals |-> ConcMaxGoals,
   max_entries |-> ConcMaxEntries]

NextRace == NextWith(FALSE, RaceInputs)

SpecRace == Init /\ [][NextRace]_vars

\* The calculators and validators called one at a time on drawn arguments.
NextCalc ==
  \/ \E p \in Sessions : cutting_target(p)
  \/ \E p \in Sessions : target_safety(p)
  \/ \E p \in Sessions : calculate_body_fat(p)
  \/ \E p \in Sessions : Return(p)

SpecCalc == Init /\ [][NextCalc]_vars

\* ------------------------------------------------------------- properties
\* The goals of a user that are ACTIVE in the goals table.
ActiveRows(u) ==
  {g \in DOMAIN goals : goals[g].user_id = u /\ goals[g].status = "active"}

\* C1: with requests served one at a time, a user never has more than one
\* ACTIVE goal; a well-formed createGoal is answered ActiveGoalExists exactly
\* when the user has an ACTIVE goal, so goals that are COMPLETED or CANCELLED
\* do not block it, and a createGoal that succeeds leaves the new goal as the
\* user's only ACTIVE one.
C1_OneActiveGoalSequential ==
  /\ \A u \in UserIds : Cardinality(ActiveRows(u)) <= 1
  /\ \A p \in Sessions :
       /\ pc[p] = "cg_insert" => ActiveRows(req[p].user_id) = {}
       /\ resp[p].op = "createGoal" =>
            CASE resp[p].error = "ActiveGoalExists" ->
                   Cardinality(ActiveRows(resp[p].user_id)) = 1
              [] resp[p].error = "ok" ->
                   ActiveRows(resp[p].user_id) = {resp[p].goal_id}
              [] resp[p].error = "ValidationError" -> TRUE
              [] OTHER -> ActiveRows(resp[p].user_id) = {}

\* A user whose earlier goal is COMPLETED has just been given a new ACTIVE
\* goal.
C1_Witness ==
  \E p \in Sessions, g \in DOMAIN goals :
    /\ resp[p].op = "createGoal" /\ resp[p].error = "ok"
    /\ g < resp[p].goal_id
    /\ goals[g].user_id = resp[p].user_id
    /\ goals[g].status = "completed"
    /\ goals[resp[p].goal_id].status = "active"

\* C2: when two createGoal requests of one user run concurrently, the user
\* still never has two ACTIVE goals.
C2_OneActiveGoalConcurrent ==
  \A g1, g2 \in DOMAIN goals :
    (/\ goals[g1].user_id = goals[g2].user_id
     /\ goals[g1].status = "active"
     /\ goals[g2].status = "active") => g1 = g2

\* C3: no two ProgressEntries reference the same Measurement, within a goal,
\* across goals, and when two appendProgress calls race.
C3_MeasurementLoggedOnce ==
  \A i, j \in DOMAIN progress_entries :
    progress_entries[i].measurement_id = progress_entries[j].measurement_id => i = j

\* Two appendProgress calls raced with the same Measurement: one has
\* committed its entry and the other is about to commit.
C3_Witness ==
  \E p, q \in Sessions :
    /\ p # q
    /\ pc[p] = "ap_commit"
    /\ pc[q] = "ap_check"
    /\ req[p].measurement_id = req[q].measurement_id
    /\ \E i \in DOMAIN progress_entries :
         progress_entries[i].measurement_id = req[p].measurement_id

\* The entry's body fat is at or past the goal's boundary.
Crossed(goal, body_fat) ==
  IF goal.goal_type = "cutting"
  THEN body_fat <= goal.target_body_fat_percentage
  ELSE body_fat >= goal.ceiling_body_fat_percentage

\* The rows of the progress_entries table that belong to goal g.
RowsOf(g) == {i \in DOMAIN progress_entries : progress_entries[i].goal_id = g}

\* C4: an appendProgress whose Measurement is already referenced by an entry
\* is answered with a typed "already logged" error and never with an
\* unhandled storage failure.
C4_DuplicateIsTypedError ==
  \A p \in Sessions :
    resp[p].op = "appendProgress" => resp[p].error # "InternalError"

\* C5: after an appendProgress that succeeded, the goal is COMPLETED with
\* completed_at set exactly when the new entry's body fat is at or below the
\* target (cutting) or at or above the ceiling (bulking); otherwise it is
\* still ACTIVE with completed_at unset.
C5_CompletedIffCrossed ==
  \A p \in Sessions :
    (resp[p].op = "appendProgress" /\ resp[p].error = "ok") =>
      LET goal == goals[resp[p].goal_id]
          body_fat == resp[p].entry[1].body_fat_percentage
      IN  IF Crossed(goal, body_fat)
          THEN goal.status = "completed" /\ goal.completed_at # None
          ELSE goal.status = "active" /\ goal.completed_at = None

\* A cutting goal has just been completed by an entry exactly at its target.
C5_Witness ==
  \E p \in Sessions :
    /\ resp[p].op = "appendProgress" /\ resp[p].error = "ok"
    /\ goals[resp[p].goal_id].goal_type = "cutting"
    /\ resp[p].entry[1].body_fat_percentage
         = goals[resp[p].goal_id].target_body_fat_percentage
    /\ goals[resp[p].goal_id].status = "completed"

\* C6: the entry and the completion it triggers are committed together: no
\* committed state holds an entry at or past the boundary while its goal is
\* still ACTIVE.
C6_EntryAndCompletionAtomic ==
  \A i \in DOMAIN progress_entries :
    LET goal == goals[progress_entries[i].goal_id]
    IN  Crossed(goal, progress_entries[i].body_fat_percentage)
          => goal.status # "active"

\* C7: with requests served one at a time, the week_numbers of a goal's
\* entries are exactly 1..n with no gap and no duplicate, a successful call
\* adds the entry numbered with the new count, a failed call consumes no
\* number, and listProgress returns the entries in strictly increasing
\* week_number order.
C7_WeekNumbersGapless ==
  /\ \A g \in DOMAIN goals :
       /\ \A n \in 1..Cardinality(RowsOf(g)) :
            Cardinality({i \in RowsOf(g) : progress_entries[i].week_number = n}) = 1
       /\ LET listed == get_progress_history(g)
          IN  /\ Len(listed) = Cardinality(RowsOf(g))
              /\ \A k \in 1..(Len(listed) - 1) :
                   listed[k].week_number < listed[k + 1].week_number
  /\ \A p \in Sessions :
       (resp[p].op = "appendProgress" /\ resp[p].error = "ok") =>
         resp[p].entry[1].week_number = Cardinality(RowsOf(resp[p].goal_id))

\* A goal's third entry has just been appended.
C7_Witness ==
  \E p \in Sessions :
    /\ resp[p].op = "appendProgress" /\ resp[p].error = "ok"
    /\ resp[p].entry[1].week_number = 3
    /\ Cardinality(RowsOf(resp[p].goal_id)) = 3

\* This step is session p taking up an appendProgress request.
AppendStarts(p) ==
  /\ pc[p] = "idle"
  /\ pc'[p] # "idle"
  /\ resp'[p].op = "appendProgress" \/ req'[p].op = "appendProgress"

\* The row of goal g that was inserted last.
LatestRow(g) == CHOOSE i \in RowsOf(g) : \A j \in RowsOf(g) : j <= i

\* C8: an appendProgress that gets as far as the cadence check is rejected
\* with TooSoon exactly when the whole-day difference between the new
\* Measurement and the prior checkpoint (the Measurement of the entry logged
\* last, or the goal's initial Measurement when the ledger is empty) is less
\* than 7; the error carries that day count and nothing is persisted; a
\* difference of 7 days or more passes the check.
C8_TooSoonIffUnderSevenDays ==
  [][\A p \in Sessions :
       AppendStarts(p) =>
       \A g \in DOMAIN goals, m \in MeasurementIds :
       (/\ goals[g].status = "active"
        /\ body_measurements[m].user_id = goals[g].user_id
        /\ append_progress_load(p, TRUE, MaxEntries, goals[g].user_id, g, m))
       => LET prior == IF RowsOf(g) = {}
                       THEN body_measurements[goals[g].initial_measurement_id]
                       ELSE body_measurements[progress_entries[LatestRow(g)].measurement_id]
              days == (body_measurements[m].measured_at - prior.measured_at) \div 24
          IN  IF days < 7
              THEN /\ pc'[p] = "done"
                   /\ resp'[p].error = "TooSoon"
                   /\ resp'[p].days = days
                   /\ UNCHANGED <<goals, progress_entries>>
              ELSE /\ pc'[p] = "ap_commit"
                   /\ req'[p].entry[1].measurement_id = m]_vars

\* A Measurement taken 6 whole days (167 hours) after its prior checkpoint
\* has just been refused, while the ledger holds an entry whose Measurement
\* was accepted exactly 7 days after the entry logged before it.
C8_Witness ==
  \E p \in Sessions :
    /\ resp[p].op = "appendProgress"
    /\ resp[p].error = "TooSoon"
    /\ resp[p].days = 6
    /\ \E i, j \in DOMAIN progress_entries :
         /\ progress_entries[i].goal_id = progress_entries[j].goal_id
         /\ progress_entries[j].week_number = progress_entries[i].week_number + 1
         /\ body_measurements[progress_entries[j].measurement_id].measured_at
              - body_measurements[progress_entries[i].measurement_id].measured_at = 7 * 24

C10_GoalBoundaries ==
  \A g \in DOMAIN goals :
    LET goal == goals[g]
        floor == IF users[goal.user_id].gender = "male" THEN 800 ELSE 1500
    IN  IF goal.goal_type = "cutting"
        THEN /\ goal.ceiling_body_fat_percentage = None
             /\ goal.target_body_fat_percentage # None
             /\ floor <= goal.target_body_fat_percentage
             /\ goal.target_body_fat_percentage < goal.initial_body_fat_percentage
        ELSE /\ goal.target_body_fat_percentage = None
             /\ goal.ceiling_body_fat_percentage # None
             /\ goal.initial_body_fat_percentage < goal.ceiling_body_fat_percentage
             /\ goal.ceiling_body_fat_percentage <= 3000

\* Goals exactly at the limits are stored: a female user's cutting goal with
\* target 15.0 % and a male user's bulking goal with ceiling 30.0 %.
C10_Witness ==
  /\ \E g \in DOMAIN goals :
       /\ users[goals[g].user_id].gender = "female"
       /\ goals[g].goal_type = "cutting"
       /\ goals[g].target_body_fat_percentage = 1500
  /\ \E g \in DOMAIN goals :
       /\ goals[g].goal_type = "bulking"
       /\ goals[g].ceiling_body_fat_percentage = 3000

\* C11: check_completion called on a goal createGoal has just accepted, with
\* the goal's initial body fat, returns false, and the goal is ACTIVE with
\* completed_at unset.
C11_FreshGoalNotComplete ==
  \A p \in Sessions :
    (resp[p].op = "createGoal" /\ resp[p].error = "ok") =>
      LET goal == goals[resp[p].goal_id]
      IN  /\ ~ ShouldComplete(goal.status, goal, goal.initial_body_fat_percentage)
          /\ goal.status = "active"
          /\ goal.completed_at = None

\* A cutting goal and, earlier, a bulking goal of the same user have been
\* accepted; the cutting goal is the one just created.
C11_Witness ==
  \E p \in Sessions, g \in DOMAIN goals :
    /\ resp[p].op = "createGoal" /\ resp[p].error = "ok"
    /\ goals[resp[p].goal_id].goal_type = "cutting"
    /\ goals[g].goal_type = "bulking"

\* This step is session p taking up a createGoal request.
GoalStarts(p) ==
  /\ pc[p] = "idle"
  /\ pc'[p] # "idle"
  /\ resp'[p].op = "createGoal" \/ req'[p].op = "createGoal"

\* The first check of the documented order that request r fails, "ok" if none.
ExpectedGoalError(r) ==
  IF ActiveRows(r.user_id) # {} THEN "ActiveGoalExists"
  ELSE IF r.measurement_id \notin DOMAIN body_measurements THEN "MeasurementNotFound"
  ELSE IF body_measurements[r.measurement_id].user_id # r.user_id THEN "OwnershipMismatch"
  ELSE LET initial == body_measurements[r.measurement_id].calculated_body_fat_percentage
           floor == IF users[r.user_id].gender = "male" THEN 800 ELSE 1500
       IN  IF r.goal_type = "cutting" /\ (r.target < floor \/ r.target >= initial)
           THEN "SafetyViolation"
           ELSE IF r.goal_type = "bulking" /\ (r.ceiling > 3000 \/ r.ceiling <= initial)
           THEN "SafetyViolation"
           ELSE "ok"

\* C12: a well-formed createGoal reports the first failing check in the order
\* ActiveGoalExists, MeasurementNotFound, MeasurementOwnershipMismatch, safety
\* validation; a createGoal that fails, at any point, persists no Goal and
\* leaves every goal and progress entry unchanged.
C12_GoalCheckOrder ==
  [][\A p \in Sessions :
       /\ GoalStarts(p) =>
            \A r \in GoalRequests :
              (/\ validate_goal_targets(r.goal_type, r.target, r.ceiling)
               /\ create_goal_validate(p, TRUE, MaxGoals, r.user_id, r.goal_type,
                                       r.measurement_id, r.target, r.ceiling))
              => /\ UNCHANGED <<goals, progress_entries>>
                 /\ IF ExpectedGoalError(r) = "ok"
                    THEN pc'[p] = "cg_insert"
                    ELSE pc'[p] = "done" /\ resp'[p].error = ExpectedGoalError(r)
       /\ (resp[p].op = "none" /\ resp'[p].op = "createGoal" /\ resp'[p].error # "ok")
            => UNCHANGED <<goals, progress_entries>>]_vars

\* A createGoal naming another user's measurement has just been refused for
\* a user whose earlier goal is no longer ACTIVE.
C12_Witness ==
  \E p \in Sessions :
    /\ resp[p].op = "createGoal"
    /\ resp[p].error = "OwnershipMismatch"
    /\ \E g \in DOMAIN goals : goals[g].user_id = resp[p].user_id

\* C13: the initial Measurement of every goal and the Measurement of every
\* ProgressEntry belong to the user who owns the goal, and no createGoal or
\* appendProgress naming another user's Measurement gets as far as its
\* insert.
C13_MeasurementsOwnedByGoalUser ==
  /\ \A g \in DOMAIN goals :
       body_measurements[goals[g].initial_measurement_id].user_id = goals[g].user_id
  /\ \A i \in DOMAIN progress_entries :
       body_measurements[progress_entries[i].measurement_id].user_id
         = goals[progress_entries[i].goal_id].user_id
  /\ \A p \in Sessions :
       /\ pc[p] = "cg_insert" =>
            body_measurements[req[p].measurement_id].user_id = req[p].user_id
       /\ pc[p] = "ap_commit" =>
            body_measurements[req[p].measurement_id].user_id = goals[req[p].goal_id].user_id

\* An appendProgress naming another user's measurement has just been refused
\* on a goal that already has an entry.
C13_Witness ==
  \E p \in Sessions :
    /\ resp[p].op = "appendProgress"
    /\ resp[p].error = "OwnershipMismatch"
    /\ progress_entries # <<>>

\* C14: every ProgressEntry of a cutting goal is on track exactly when the
\* absolute cumulative change of body fat since the goal's initial value lies
\* between 0.4 and 1.2 points per week elapsed.
C14_CuttingOnTrackIsCumulative ==
  \A i \in DOMAIN progress_entries :
    LET entry == progress_entries[i]
        goal == goals[entry.goal_id]
        cumulative == Abs(entry.body_fat_percentage - goal.initial_body_fat_percentage)
    IN  goal.goal_type = "cutting" =>
          (entry.is_on_track <=>
             /\ 40 * entry.week_number <= cumulative
             /\ cumulative <= 120 * entry.week_number)

\* C15: a ProgressEntry of a bulking goal whose body fat is below the goal's
\* initial body fat is never stored as on track.
C15_BulkingBelowInitialOffTrack ==
  \A i \in DOMAIN progress_entries :
    LET entry == progress_entries[i]
        goal == goals[entry.goal_id]
    IN  (/\ goal.goal_type = "bulking"
         /\ entry.body_fat_percentage < goal.initial_body_fat_percentage)
        => ~ entry.is_on_track

\* The trends returned to session p by a successful GET /goals/{id}/trends.
TrendsOf(p) == resp[p].trends[1]

GotTrends(p) == resp[p].op = "getTrends" /\ resp[p].error = "ok"

\* C16: get_trends on a goal with zero or one ProgressEntry returns trend
\* insufficient_data, progress_percentage 0, both weekly averages 0 and the
\* 'keep logging' adjustment suggestion.
C16_FewEntriesKeepLogging ==
  \A p \in Sessions :
    (GotTrends(p) /\ Len(EntriesOf(resp[p].goal_id)) < 2) =>
      /\ TrendsOf(p).trend = "insufficient_data"
      /\ TrendsOf(p).progress_percentage = Zero
      /\ TrendsOf(p).weekly_bf_change_avg = Zero
      /\ TrendsOf(p).weekly_weight_change_avg = Zero
      /\ TrendsOf(p).adjustment_suggestion = "keep_logging"

\* The committed entries of goal g, as a set.
EntrySet(g) == {progress_entries[i] : i \in RowsOf(g)}

\* The sum of body_fat_change over the given entries from from_week on.
RECURSIVE ChangeSince(_, _)
ChangeSince(rows, from_week) ==
  IF rows = {} THEN 0
  ELSE LET row == CHOOSE row \in rows : TRUE
       IN  (IF row.week_number >= from_week THEN row.body_fat_change ELSE 0)
             + ChangeSince(rows \ {row}, from_week)

\* C17: the trend is insufficient_data exactly when the goal has fewer than
\* 3 entries; otherwise it depends only on the mean m of body_fat_change
\* over the 3 entries with the highest week numbers: for cutting it is
\* plateau when m > -0.2 and improving otherwise, for bulking it is plateau
\* when m < 0.1, worsening when m > 0.6 and improving otherwise. An answer
\* from fewer than 2 entries is insufficient_data as well.
C17_TrendFromLastThree ==
  \A p \in Sessions :
    GotTrends(p) =>
      LET g == resp[p].goal_id
          rows == EntrySet(g)
          count == Cardinality(rows)
          sum3 == ChangeSince(rows, count - 2)
          trend == TrendsOf(p).trend
      IN  /\ (trend = "insufficient_data") <=> (count < 3)
          /\ count >= 3 =>
               IF goals[g].goal_type = "cutting"
               THEN trend = (IF sum3 > 0 - 60 THEN "plateau" ELSE "improving")
               ELSE trend = (IF sum3 < 30 THEN "plateau"
                             ELSE IF sum3 > 180 THEN "worsening"
                             ELSE "improving")

\* Trends were read from three entries of a cutting goal whose changes sum
\* to -0.60 exactly (mean -0.2): not a plateau.
C17_Witness ==
  \E p \in Sessions :
    /\ GotTrends(p)
    /\ goals[resp[p].goal_id].goal_type = "cutting"
    /\ Cardinality(EntrySet(resp[p].goal_id)) = 3
    /\ ChangeSince(EntrySet(resp[p].goal_id), 1) = 0 - 60
    /\ TrendsOf(p).trend = "improving"

\* The boundary of a goal: the target of a cutting goal, the ceiling of a
\* bulking goal.
BoundaryOf(goal) ==
  IF goal.goal_type = "cutting" THEN goal.target_body_fat_percentage
  ELSE goal.ceiling_body_fat_percentage

\* The entry of goal g with the highest week number.
LatestWeekRow(g) ==
  CHOOSE row \in EntrySet(g) : \A other \in EntrySet(g) : other.week_number <= row.week_number

\* C18: for a goal with at least 2 entries, estimated_weeks_remaining is
\* null if and only if the weekly average of body_fat_change is exactly
\* zero; with a nonzero average it is 0 when the latest body fat has reached
\* or passed the boundary and floor(|boundary - latest| / |average|)
\* otherwise, for cutting and bulking alike, whatever the sign of the
\* average.
C18_WeeksRemainingIsFloor ==
  \A p \in Sessions :
    (GotTrends(p) /\ Cardinality(EntrySet(resp[p].goal_id)) >= 2) =>
      LET g == resp[p].goal_id
          goal == goals[g]
          n == Cardinality(EntrySet(g))
          total == ChangeSince(EntrySet(g), 1)
          latest == LatestWeekRow(g).body_fat_percentage
          estimate == TrendsOf(p).estimated_weeks_remaining
      IN  /\ (estimate = None) <=> (total = 0)
          /\ total # 0 =>
               IF Crossed(goal, latest) THEN estimate = 0
               ELSE estimate = (Abs(BoundaryOf(goal) - latest) * n) \div Abs(total)

\* C19: for every goal and ledger the progress percentage never divides by
\* zero (the initial body fat differs from the boundary), lies in [0, 100],
\* is the clamped share (initial - latest) / (initial - boundary) of the
\* entry with the highest week number, is 100 exactly when that entry is at
\* or beyond the boundary and 0 when that entry shows no movement toward the
\* boundary or movement away from it; get_trends reports this percentage
\* from 2 entries on.
C19_ProgressPercentage ==
  /\ \A g \in DOMAIN goals :
       LET goal == goals[g]
           pct == calculate_progress_percentage(g)
           initial == goal.initial_body_fat_percentage
           boundary == BoundaryOf(goal)
       IN  /\ initial # boundary
           /\ pct.den > 0
           /\ 0 <= pct.num /\ pct.num <= 100 * pct.den
           /\ EntrySet(g) = {} => pct.num = 0
           /\ EntrySet(g) # {} =>
                LET latest == LatestWeekRow(g).body_fat_percentage
                    moved == IF goal.goal_type = "cutting" THEN initial - latest
                             ELSE latest - initial
                IN  /\ (pct.num = 100 * pct.den) <=> Crossed(goal, latest)
                    /\ moved <= 0 => pct.num = 0
                    /\ (moved > 0 /\ ~ Crossed(goal, latest)) =>
                         pct.num * Abs(boundary - initial) = 100 * moved * pct.den
  /\ \A p \in Sessions :
       (GotTrends(p) /\ TrendsOf(p).weeks_elapsed >= 2) =>
         TrendsOf(p).progress_percentage = calculate_progress_percentage(resp[p].goal_id)

\* Trends were read from a ledger of 3 entries whose latest lies strictly
\* between the initial body fat and the boundary while an earlier entry does
\* not: the percentage is strictly between 0 and 100.
C19_Witness ==
  \E p \in Sessions :
    /\ GotTrends(p)
    /\ TrendsOf(p).weeks_elapsed = 3
    /\ TrendsOf(p).progress_percentage.num > 0
    /\ TrendsOf(p).progress_percentage.num < 100 * TrendsOf(p).progress_percentage.den
    /\ \E row \in EntrySet(resp[p].goal_id) :
         LET goal == goals[resp[p].goal_id]
         IN  IF goal.goal_type = "cutting"
             THEN row.body_fat_percentage >= goal.initial_body_fat_percentage
             ELSE row.body_fat_percentage <= goal.initial_body_fat_percentage

\* C20: for every progress entry appended to a bulking goal, the response
\* carries a ceiling warning exactly when the entry's body fat is within 1.0
\* point of the ceiling, |body_fat - ceiling| <= 1.0, and none otherwise.
C20_CeilingWarningWithinOnePoint ==
  \A p \in Sessions :
    (/\ resp[p].op = "appendProgress"
     /\ resp[p].error = "ok"
     /\ goals[resp[p].goal_id].goal_type = "bulking") =>
      LET entry == resp[p].entry[1]
          ceiling == goals[resp[p].goal_id].ceiling_body_fat_percentage
      IN  (resp[p].ceiling_warning # "none")
            <=> (Abs(entry.body_fat_percentage - ceiling) <= 100)

\* Session p has run log_progress on a bulking goal up to its commit.
BulkingEntryPending(p) ==
  /\ pc[p] = "ap_commit"
  /\ goals[req[p].goal_id].goal_type = "bulking"

C22_OnTrackCuttingIsImproving ==
  \A p \in Sessions :
    (/\ GotTrends(p)
     /\ goals[resp[p].goal_id].goal_type = "cutting"
     /\ TrendsOf(p).weeks_elapsed >= 3
     /\ TrendsOf(p).is_on_track) =>
      /\ TrendsOf(p).trend = "improving"
      /\ TrendsOf(p).adjustment_suggestion \in {"none", "maintain"}

\* C23: for a male of 80 kg, 175 cm and 30 years at activity level
\* moderately_active the energy model gives BMR 1749, TDEE 2712 and a
\* cutting target of 2312 calories, which is what a cutting goal of such a
\* user stores.
C23_EnergyModelExample ==
  \A g \in DOMAIN goals :
    LET goal == goals[g]
        user == users[goal.user_id]
        age == user.age_days \div 365
        bmr == calculate_bmr(goal.initial_weight_kg, user.height_cm, age, user.gender)
        tdee == calculate_tdee(bmr, user.activity_level)
    IN  (/\ goal.goal_type = "cutting"
         /\ user.gender = "male"
         /\ goal.initial_weight_kg = 8000
         /\ user.height_cm = 17500
         /\ age = 30
         /\ user.activity_level = "moderately_active") =>
          /\ bmr = 1749
          /\ tdee = 2712
          /\ goal.target_calories = 2312

\* C23 (amended): for a male of 80 kg, 175 cm and 30 years at activity level
\* moderately_active the energy model gives BMR 1749, TDEE 2711 (1749 * 1.55
\* = 2710.95, rounded) and a cutting target of 2311 calories (TDEE minus the
\* default deficit of 400), which is what a cutting goal of such a user
\* stores.
C23_EnergyModelAmended ==
  \A g \in DOMAIN goals :
    LET goal == goals[g]
        user == users[goal.user_id]
        age == user.age_days \div 365
        bmr == calculate_bmr(goal.initial_weight_kg, user.height_cm, age, user.gender)
        tdee == calculate_tdee(bmr, user.activity_level)
    IN  (/\ goal.goal_type = "cutting"
         /\ user.gender = "male"
         /\ goal.initial_weight_kg = 8000
         /\ user.height_cm = 17500
         /\ age = 30
         /\ user.activity_level = "moderately_active") =>
          /\ bmr = 1749
          /\ tdee = 2711
          /\ goal.target_calories = tdee - DefaultDeficit
          /\ goal.target_calories = 2311

\* A cutting goal of the 30 year old male of 175 cm has been created from
\* his measurement of 80 kg.
C23_Witness ==
  \E g \in DOMAIN goals :
    /\ goals[g].goal_type = "cutting"
    /\ goals[g].initial_weight_kg = 8000
    /\ users[goals[g].user_id].gender = "male"
    /\ users[goals[g].user_id].height_cm = 17500
    /\ users[goals[g].user_id].age_days \div 365 = 30
    /\ users[goals[g].user_id].activity_level = "moderately_active"

\* The arguments and the value of the calculator call answered to session p.
CalcOf(p) == resp[p].calc[1]

\* C24: for every tdee and every deficit the cutting target is
\* max(tdee - deficit, floor) with floor 1500 for male and 1200 for female:
\* never below the floor, also when the floor is above tdee itself.
C24_CuttingTargetFloor ==
  \A p \in Sessions :
    resp[p].op = "cutting_target" =>
      LET args == CalcOf(p).args
          value == CalcOf(p).value
          floor == IF args.gender = "male" THEN 1500 ELSE 1200
      IN  /\ value >= floor
          /\ value >= args.tdee - args.deficit
          /\ value = floor \/ value = args.tdee - args.deficit

\* The cutting target was computed for a male whose tdee is below 1500.
C24_Witness ==
  \E p \in Sessions :
    /\ resp[p].op = "cutting_target"
    /\ CalcOf(p).args.gender = "male"
    /\ CalcOf(p).args.tdee < 1500
    /\ CalcOf(p).value = 1500

\* C25: for every target in hundredths of a point and every sex, the
\* validator's target-safety check and the floor check of the goal safety
\* validation both accept exactly when target >= 8.00 (male) or target >=
\* 15.00 (female): the floor itself is accepted, one hundredth below it is
\* refused, and the two never disagree.
C25_TargetFloorInclusive ==
  \A p \in Sessions :
    resp[p].op = "target_safety" =>
      LET args == CalcOf(p).args
          floor == IF args.gender = "male" THEN 800 ELSE 1500
      IN  /\ CalcOf(p).value.validator <=> (args.target >= floor)
          /\ CalcOf(p).value.goal_service <=> (args.target >= floor)
          /\ CalcOf(p).value.validator = CalcOf(p).value.goal_service

\* Both checks have accepted a female target of exactly 15.00.
C25_Witness ==
  \E p \in Sessions :
    /\ resp[p].op = "target_safety"
    /\ CalcOf(p).args = [target |-> 1500, gender |-> "female"]
    /\ CalcOf(p).value.validator
    /\ CalcOf(p).value.goal_service

\* The raw inputs a method needs for a sex.
RequiredInputs(method, gender) ==
  IF method = "navy"
  THEN {"waist_cm", "neck_cm"} \cup (IF gender = "female" THEN {"hip_cm"} ELSE {})
  ELSE IF method = "3_site"
  THEN IF gender = "male" THEN {"chest_mm", "abdomen_mm", "thigh_mm"}
       ELSE {"tricep_mm", "suprailiac_mm", "thigh_mm"}
  ELSE {"chest_mm", "midaxillary_mm", "tricep_mm", "subscapular_mm", "abdomen_mm",
        "suprailiac_mm", "thigh_mm"}

\* C26: whenever a raw input that the chosen method and sex require is
\* absent, the calculator fails with one and the same typed missing-input
\* error (the ValueError of the missing hip) and returns no body fat; with
\* every required input present it returns one.
C26_MissingInputIsTyped ==
  \A p \in Sessions :
    resp[p].op = "body_fat" =>
      LET args == CalcOf(p).args
      IN  IF RequiredInputs(args.method, args.gender) \subseteq args.given
          THEN CalcOf(p).value = "value"
          ELSE CalcOf(p).value = "ValueError"

\* C27: in every state a goal's completed_at is set if and only if its
\* status is COMPLETED, and COMPLETED is terminal: no step, the completion
\* check of a request included, takes a completed goal to another status or
\* replaces its completed_at by a later reading of the clock (stamps only
\* ever move down, when a discarded reading is forgotten).
C27_CompletedIsTerminal ==
  [][\A g \in DOMAIN goals :
       /\ (goals[g].completed_at # None) <=> (goals[g].status = "completed")
       /\ goals[g].status = "completed" =>
            /\ goals'[g].status = "completed"
            /\ goals'[g].completed_at <= goals[g].completed_at]_vars

\* C28: the committed ledger of a goal never holds two entries with the same
\* week_number, also when two appendProgress requests for it interleave.
C28_WeekNumberUnique ==
  \A i, j \in DOMAIN progress_entries :
    (/\ progress_entries[i].goal_id = progress_entries[j].goal_id
     /\ progress_entries[i].week_number = progress_entries[j].week_number)
      => i = j

\* The entry of goal g with week number week.
WeekRow(g, week) == CHOOSE row \in EntrySet(g) : row.week_number = week

\* The entries of goal g are numbered 1..n, the one logged last has the
\* highest week number, and each entry's changes are its own snapshot minus
\* the snapshot of the entry of the week before (the goal's initial snapshot
\* for week 1), so the changes sum to latest minus initial.
LedgerTelescopes(g) ==
  LET rows == EntrySet(g)
      n == Cardinality(rows)
      goal == goals[g]
  IN  /\ \A week \in 1..n : \E row \in rows : row.week_number = week
      /\ \A row \in rows : row.logged_at <= LatestWeekRow(g).logged_at
      /\ \A row \in rows :
           LET first == row.week_number = 1
               before_bf == IF first THEN goal.initial_body_fat_percentage
                            ELSE WeekRow(g, row.week_number - 1).body_fat_percentage
               before_kg == IF first THEN goal.initial_weight_kg
                            ELSE WeekRow(g, row.week_number - 1).weight_kg
           IN  /\ row.body_fat_change = row.body_fat_percentage - before_bf
               /\ row.weight_change_kg = row.weight_kg - before_kg
      /\ n > 0 => ChangeSince(rows, 1) =
                    LatestWeekRow(g).body_fat_percentage - goal.initial_body_fat_percentage

\* weekly_bf_change_avg of the trends read by p is latest minus initial
\* body fat over the number of entries.
AverageIsTotalChange(p) ==
  LET g == resp[p].goal_id
  IN  TrendsOf(p).weekly_bf_change_avg =
        Fraction(LatestWeekRow(g).body_fat_percentage - goals[g].initial_body_fat_percentage,
                 Cardinality(EntrySet(g)))

\* C29 as stated: with requests served one at a time the ledger of every
\* goal telescopes, and get_trends' weekly_bf_change_avg is latest minus
\* initial body fat divided by the number of entries, whenever the goal has
\* an entry.
C29_ChangesTelescope ==
  /\ \A g \in DOMAIN goals : LedgerTelescopes(g)
  /\ \A p \in Sessions :
       (GotTrends(p) /\ EntrySet(resp[p].goal_id) # {}) => AverageIsTotalChange(p)

\* C29: with requests served one at a time the ledger of every goal
\* telescopes (prior checkpoint = entry with the highest week number, each
\* change = own snapshot minus the snapshot of the week before, sum of the
\* changes = latest minus initial body fat), and get_trends'
\* weekly_bf_change_avg is that difference divided by the number of entries
\* when the goal has at least two entries; with a single entry it is 0.
C29_ChangesTelescopeAmended ==
  /\ \A g \in DOMAIN goals : LedgerTelescopes(g)
  /\ \A p \in Sessions :
       GotTrends(p) =>
         IF Cardinality(EntrySet(resp[p].goal_id)) >= 2
         THEN AverageIsTotalChange(p)
         ELSE TrendsOf(p).weekly_bf_change_avg = Zero

\* Trends were read from a ledger of three entries whose changes have both
\* signs and do not cancel.
C29_Witness ==
  \E p \in Sessions :
    /\ GotTrends(p)
    /\ Cardinality(EntrySet(resp[p].goal_id)) = 3
    /\ \E a, b \in EntrySet(resp[p].goal_id) : a.body_fat_change < 0 /\ b.body_fat_change > 0
    /\ TrendsOf(p).weekly_bf_change_avg.num # 0

\* C30: every createGoal request that has passed the safety validation
\* computes an estimated_weeks_to_goal of at least 1, so the stored-goal
\* constraint estimated_weeks_to_goal > 0 holds and no creation fails after
\* its validation has succeeded.
C30_EstimatedWeeksPositive ==
  \A p \in Sessions :
    /\ pc[p] = "cg_insert" =>
         NewGoal(req[p].user_id, req[p].goal_type, req[p].measurement_id,
                 req[p].target, req[p].ceiling, now + 1).estimated_weeks_to_goal >= 1
    /\ ~ (resp[p].op = "createGoal" /\ resp[p].error = "InternalError")

====
